---- MODULE Spec2Model ----
(***************************************************************************)
(* Model of anim.py: the bar-chart animation of electricity consumption.   *)
(*                                                                         *)
(*   read_and_prepare_data      reads a table and sorts it by one column   *)
(*   animate                    the per-frame callback: bar lengths,       *)
(*                              colours and axis limits for a frame number *)
(*   create_and_save_animation  the driver: frame counts, one animate call *)
(*                              per frame of range(frames), then the print *)
(*                                                                         *)
(* Python's float arithmetic is modelled by exact rationals, kept as       *)
(* records [num, den] in lowest terms with den > 0.                        *)
(***************************************************************************)
EXTENDS Integers, Sequences, FiniteSets

\* ------------------------------------------------------------ constants
TOTAL_DURATION == 60
HOLD_DURATION == 3
FPS == 50
RED_LIMIT == 3

\* ------------------------------------------------------------ bounds
\* Largest number of rows of a table handed to create_and_save_animation.
MaxN == 4
\* Largest number of rows of a table handed to read_and_prepare_data.
MaxRows == 3

\* The MWh values a row may hold.
Values == {10, 20, 30}

\* The (duration, hold, fps) triples create_and_save_animation is called with:
\* the call of __main__, and small ones around it (a duration or frame rate
\* that is not the module's, no hold, no frames at all).
CreateArgs ==
    {<<TOTAL_DURATION, HOLD_DURATION, FPS>>}
        \cup ({0, 1, 2} \X {0, HOLD_DURATION} \X {1})
        \cup {<<1, 0, FPS>>, <<0, 0, FPS>>}

\* ------------------------------------------------------------ rationals
Abs(x) == IF x < 0 THEN -x ELSE x

RECURSIVE GCD(_, _)
GCD(a, b) == IF b = 0 THEN a ELSE GCD(b, a % b)

Rat(n, d) ==
    LET s == IF d < 0 THEN -1 ELSE 1
        g == GCD(Abs(n), Abs(d))
    IN  [num |-> (s * n) \div g, den |-> (s * d) \div g]

FromInt(k) == [num |-> k, den |-> 1]

ZeroDivisionError == [exc |-> "ZeroDivisionError"]
ValueError == [exc |-> "ValueError"]
IsExc(x) == "exc" \in DOMAIN x

\* Python's a / b
TrueDiv(a, b) ==
    IF b.num = 0 THEN ZeroDivisionError
    ELSE Rat(a.num * b.den, a.den * b.num)

Mul(a, b) == Rat(a.num * b.num, a.den * b.den)
Sub(a, b) == Rat(a.num * b.den - b.num * a.den, a.den * b.den)
GE(a, b) == a.num * b.den >= b.num * a.den
LT(a, b) == ~GE(a, b)
\* Python's min(a, b): b only when b < a
PyMin(a, b) == IF LT(b, a) THEN b ELSE a

\* Python's max(seq): ValueError on an empty sequence
RECURSIVE MaxFrom(_, _, _)
MaxFrom(s, k, best) ==
    IF k > Len(s) THEN best
    ELSE MaxFrom(s, k + 1, IF LT(best, s[k]) THEN s[k] ELSE best)

PyMax(s) == IF Len(s) = 0 THEN ValueError ELSE MaxFrom(s, 2, s[1])

\* ------------------------------------------------------------ state
VARIABLES
    pc,                      \* "start", "loaded", "saving", "failed", "done"
    table,                   \* the rows read_excel returns, in file order
    df,                      \* the DataFrame the animation runs on
    duration, hold, fps,     \* create_and_save_animation's arguments
    total_frames,            \* create_and_save_animation's locals
    total_frames_with_hold,
    next_frame,              \* the position of FuncAnimation's range(frames)
    frame_num,               \* the frame number of the last animate call (-1: none)
    n_calls,                 \* animate calls so far
    grabbed,                 \* frames handed to the ffmpeg writer so far
    bar_lengths,             \* the axes after the last animate call
    bar_colors,
    xlim,
    ylim,
    raised,                  \* "none", or the exception animate raised
    printed                  \* print(output_file) has run

vars == <<pc, table, df, duration, hold, fps, total_frames,
          total_frames_with_hold, next_frame, frame_num, n_calls, grabbed, bar_lengths, bar_colors, xlim, ylim,
          raised, printed>>

surface == <<bar_lengths, bar_colors, xlim, ylim>>
driver == <<duration, hold, fps, total_frames, total_frames_with_hold,
            next_frame, frame_num, n_calls, grabbed, raised, printed>>

\* ------------------------------------------------------------ tables
Row(name, mwh) == [Bedrift |-> name, MWh |-> mwh]

\* Row k of a table is named k: the name is the row's place in the file.
TableOf(f) == [k \in DOMAIN f |-> Row(k, f[k])]

Tables == {TableOf(f) : f \in UNION {[1..n -> Values] : n \in 0..MaxRows}}

IsSortedBy(s) == \A k \in 1..(Len(s) - 1) : s[k].MWh <= s[k + 1].MWh

\* The DataFrames create_and_save_animation is given: sorted by MWh.
SortedFrames ==
    {t \in {TableOf(f) : f \in UNION {[1..n -> Values] : n \in 0..MaxN}} :
        IsSortedBy(t)}

\* ------------------------------------------------------------ read_and_prepare_data
Permutations(t) ==
    {[k \in 1..Len(t) |-> t[p[k]]] :
        p \in {q \in [1..Len(t) -> 1..Len(t)] :
                 \A a, b \in 1..Len(t) : a # b => q[a] # q[b]}}

\* df.sort_values(by=sortcol, ascending=True): kind is left at pandas' default,
\* 'quicksort', which promises the order of the keys and nothing about rows
\* with equal keys: every sorted arrangement of the rows is a possible result.
sort_values(t) == {s \in Permutations(t) : IsSortedBy(s)}

read_and_prepare_data ==
    /\ pc = "start"
    /\ df' \in sort_values(table)
    /\ pc' = "loaded"
    /\ UNCHANGED <<table, driver, surface>>

\* ------------------------------------------------------------ animate
Zero == FromInt(0)
One == FromInt(1)

\* elapsed_time = frame_num / FPS
elapsed_time(f) == TrueDiv(FromInt(f), FromInt(FPS))

\* if frame_num > total_frames: frame_num = total_frames
clamp_frame_num(f, total) == IF f > total THEN total ELSE f

\* Mutant: the slice is taken of one row more than the table has.
start_time_crowded(d, i) ==
    Mul(TrueDiv(FromInt(TOTAL_DURATION), FromInt(Len(d) + 1)), FromInt(i))

\* start_time = (TOTAL_DURATION / len(df)) * i, i counted from 0
start_time(d, i) ==
    Mul(TrueDiv(FromInt(TOTAL_DURATION), FromInt(Len(d))), FromInt(i))

\* Mutant: > for >=.
bar_color_off_by_one(d, i) == IF i > Len(d) - RED_LIMIT THEN "red" ELSE "skyblue"

\* 'red' if i >= len(df) - RED_LIMIT else 'skyblue'
bar_color(d, i) == IF i >= Len(d) - RED_LIMIT THEN "red" ELSE "skyblue"

\* Mutant: the operands of the subtraction swapped.
growth_time_swapped(d, i, elapsed) == Sub(start_time(d, i), elapsed)

\* growth_time = elapsed_time - start_time
growth_time(d, i, elapsed) == Sub(elapsed, start_time(d, i))

\* growth_duration = TOTAL_DURATION / len(df)
growth_duration(d) == TrueDiv(FromInt(TOTAL_DURATION), FromInt(Len(d)))

\* Mutant: the phase is not capped at 1.
growth_phase_unclamped(d, i, elapsed) ==
    TrueDiv(growth_time(d, i, elapsed), growth_duration(d))

\* growth_phase = min(growth_time / growth_duration, 1)
growth_phase(d, i, elapsed) ==
    PyMin(TrueDiv(growth_time(d, i, elapsed), growth_duration(d)), One)

\* the value appended to bar_lengths for row i
bar_length(d, i, elapsed) ==
    IF GE(elapsed, start_time(d, i))
    THEN Mul(FromInt(d[i + 1].MWh), growth_phase(d, i, elapsed))
    ELSE Zero

\* Mutant: max(bar_lengths) with no test for the empty list.
current_max_unguarded(lengths) == PyMax(lengths)

\* current_max = max(bar_lengths) if bar_lengths else 0
current_max(lengths) == IF lengths # <<>> THEN PyMax(lengths) ELSE Zero

\* One call animate(frame_num, ax, df, total_frames): what it leaves on the
\* axes, the frame number it ends with, and the exception it raised, if any.
animate(f, d, total) ==
    LET elapsed == elapsed_time(f)
        clamped == clamp_frame_num(f, total)
        colors == [k \in 1..Len(d) |-> bar_color(d, k - 1)]
        lengths == [k \in 1..Len(d) |-> bar_length(d, k - 1, elapsed)]
        cmax == current_max(lengths)
    IN  IF IsExc(cmax)
        THEN [raised |-> cmax.exc, frame_num |-> clamped,
              bar_lengths |-> lengths, bar_colors |-> colors,
              xlim |-> <<Zero, Zero>>, ylim |-> <<-1, Len(d)>>]
        ELSE [raised |-> "none", frame_num |-> clamped,
              bar_lengths |-> lengths, bar_colors |-> colors,
              xlim |-> <<Zero, Mul(cmax, Rat(11, 10))>>,
              ylim |-> <<-1, Len(d)>>]

\* ------------------------------------------------------------ create_and_save_animation
\* Mutant: the hold frames are left out.
frames_without_hold(total, hold_frames) == total

\* total_frames_with_hold = total_frames + hold_frames
frames_with_hold(total, hold_frames) == total + hold_frames

\* FuncAnimation(frames=n): the frames are range(n)
frame_seq(n) == 0..(n - 1)

\* The call, up to the construction of the FuncAnimation.
create_and_save_animation ==
    /\ pc = "loaded"
    /\ \E a \in CreateArgs :
          /\ duration' = a[1]
          /\ hold' = a[2]
          /\ fps' = a[3]
          /\ total_frames' = a[1] * a[3]
          /\ total_frames_with_hold' = frames_with_hold(a[1] * a[3], a[2] * a[3])
    /\ next_frame' = 0
    /\ pc' = "saving"
    /\ UNCHANGED <<table, df, frame_num, n_calls, grabbed, raised, printed, surface>>

\* ani.save: the next frame of the sequence is drawn by the lambda, which calls
\* animate(frame, ax, df, total_frames), and the writer grabs the figure.
draw_next_frame ==
    /\ pc = "saving"
    /\ next_frame \in frame_seq(total_frames_with_hold)
    /\ LET r == animate(next_frame, df, total_frames)
       IN  IF r.raised # "none"
           THEN /\ raised' = r.raised
                /\ pc' = "failed"
                /\ n_calls' = n_calls + 1
                /\ frame_num' = next_frame
                /\ UNCHANGED <<next_frame, grabbed, surface>>
           ELSE /\ bar_lengths' = r.bar_lengths
                /\ bar_colors' = r.bar_colors
                /\ xlim' = r.xlim
                /\ ylim' = r.ylim
                /\ frame_num' = next_frame
                /\ n_calls' = n_calls + 1
                /\ grabbed' = grabbed + 1
                /\ next_frame' = next_frame + 1
                /\ UNCHANGED <<pc, raised>>
    /\ UNCHANGED <<table, df, duration, hold, fps, total_frames,
                   total_frames_with_hold, printed>>

\* ani.save returns once the sequence is exhausted; print(output_file).
finish_save ==
    /\ pc = "saving"
    /\ next_frame \notin frame_seq(total_frames_with_hold)
    /\ printed' = TRUE
    /\ pc' = "done"
    /\ UNCHANGED <<table, df, duration, hold, fps, total_frames,
                   total_frames_with_hold, next_frame, frame_num, n_calls,
                   grabbed, raised, surface>>

\* ------------------------------------------------------------ specifications
Blank ==
    /\ duration = 0 /\ hold = 0 /\ fps = 0
    /\ total_frames = 0 /\ total_frames_with_hold = 0
    /\ next_frame = 0 /\ frame_num = -1 /\ n_calls = 0 /\ grabbed = 0
    /\ bar_lengths = <<>> /\ bar_colors = <<>>
    /\ xlim = <<Zero, One>> /\ ylim = <<0, 1>>
    /\ raised = "none" /\ printed = FALSE

\* create_and_save_animation called on a sorted DataFrame.
Init ==
    /\ pc = "loaded"
    /\ df \in SortedFrames
    /\ table = df
    /\ Blank

Next == create_and_save_animation \/ draw_next_frame \/ finish_save

Spec == Init /\ [][Next]_vars

\* read_and_prepare_data called on a table in any order.
InitLoad ==
    /\ pc = "start"
    /\ table \in Tables
    /\ df = <<>>
    /\ Blank

NextLoad == read_and_prepare_data

SpecLoad == InitLoad /\ [][NextLoad]_vars

\* ------------------------------------------------------------ properties
Min(a, b) == IF a < b THEN a ELSE b

\* animate has drawn at least one frame of this run
Drawn == n_calls > 0 /\ raised = "none"

N == Len(df)
MainFrames == TOTAL_DURATION * FPS

MWhOf(d) == [k \in 1..Len(d) |-> d[k].MWh]
IsFull(k) == bar_lengths[k] = FromInt(df[k].MWh)
IsEmpty(k) == bar_lengths[k] = Zero
IsPartial(k) == ~IsEmpty(k) /\ ~IsFull(k)

\* C1: after animate(f, ..) every row i of n has length 0 when
\* f/FPS < (TOTAL_DURATION/n)*i, and otherwise
\* value(i) * min((f/FPS - (TOTAL_DURATION/n)*i) / (TOTAL_DURATION/n), 1).
\* Both sides are compared as integers, over the common denominator
\* TOTAL_DURATION*FPS*den. The example of three rows 10, 20, 30 is read at
\* five sixths of the duration (25 s of 30 s): the lengths are 10, 20 and 15.
C1_BarLengthFormula ==
    Drawn =>
        /\ Len(bar_lengths) = N
        /\ \A k \in 1..N :
              LET i == k - 1
                  grown == frame_num * N - MainFrames * i
              IN  IF frame_num * N < MainFrames * i
                  THEN bar_lengths[k] = Zero
                  ELSE bar_lengths[k].num * MainFrames
                          = bar_lengths[k].den * df[k].MWh * Min(grown, MainFrames)
        /\ (MWhOf(df) = <<10, 20, 30>> /\ 6 * frame_num = 5 * MainFrames)
              => bar_lengths = <<FromInt(10), FromInt(20), FromInt(15)>>

C1_Witness ==
    /\ Drawn
    /\ MWhOf(df) = <<10, 20, 30>>
    /\ 6 * frame_num = 5 * MainFrames
    /\ bar_lengths[3] = FromInt(15)

\* C2: from one rendered frame to the next, main animation and hold frames
\* alike, no bar of a row with a non-negative value gets shorter.
C2_NoBarShrinks ==
    [][(Drawn /\ n_calls' = n_calls + 1 /\ raised' = "none")
          => \A k \in 1..N :
                df[k].MWh >= 0 => GE(bar_lengths'[k], bar_lengths[k])]_vars

C2_Witness ==
    /\ Drawn
    /\ frame_num > total_frames
    /\ \E k \in 1..N : IsPartial(k) /\ GE(bar_lengths[k], Zero)

\* C3: in a hold frame (frame_num > total_frames) every bar has the length
\* animate computes for frame_num = total_frames.
C3_HoldFramesRepeat ==
    (Drawn /\ frame_num > total_frames)
        => bar_lengths = animate(total_frames, df, total_frames).bar_lengths

\* C4: in every frame exactly min(RED_LIMIT, n) rows are 'red', they are the
\* last rows of the sorted table (the largest values), every other row is
\* 'skyblue', whatever the frame number.
C4_TopRowsRed ==
    Drawn =>
        /\ Len(bar_colors) = N
        /\ \A k \in 1..N :
              bar_colors[k] = IF k > N - Min(RED_LIMIT, N) THEN "red" ELSE "skyblue"
        /\ Cardinality({k \in 1..N : bar_colors[k] = "red"}) = Min(RED_LIMIT, N)
        /\ \A j, k \in 1..N :
              (bar_colors[j] = "skyblue" /\ bar_colors[k] = "red")
                  => df[j].MWh <= df[k].MWh

C4_Witness ==
    /\ Drawn
    /\ N > RED_LIMIT
    /\ frame_num > 0
    /\ bar_colors[1] = "skyblue"
    /\ bar_colors[N] = "red"

\* C5: read_and_prepare_data returns the rows of the table as a permutation in
\* non-decreasing MWh order, rows of equal MWh in their order in the table
\* (Bedrift is the row's place in the table).
C5_StableSort ==
    pc = "loaded" =>
        /\ df \in Permutations(table)
        /\ IsSortedBy(df)
        /\ \A j, k \in 1..Len(df) :
              (j < k /\ df[j].MWh = df[k].MWh) => df[j].Bedrift < df[k].Bedrift

\* Growing, Held, Done (before the first frame: 0)
Phase ==
    IF pc = "done" THEN 3
    ELSE IF n_calls = 0 THEN 0
    ELSE IF frame_num <= total_frames THEN 1
    ELSE 2

GrandTotal == duration * fps + hold * fps

C7_EmptyTable ==
    N = 0 =>
        /\ raised = "none"
        /\ pc # "failed"
        /\ n_calls > 0 => (bar_lengths = <<>> /\ xlim = <<Zero, Zero>> /\ ylim = <<-1, 0>>)
        /\ pc = "done" => n_calls = GrandTotal

C7_Witness ==
    /\ N = 0
    /\ Drawn
    /\ frame_num > total_frames
    /\ xlim = <<Zero, Zero>>

\* C8: with duration*fps + hold*fps <= 0 the run ends in a ConfigError: no
\* frame is rendered or encoded and the output path is never printed.
C8_ConfigErrorOnNoFrames ==
    (pc \in {"saving", "failed", "done"} /\ GrandTotal <= 0)
        => /\ n_calls = 0
           /\ grabbed = 0
           /\ ~printed
           /\ pc # "done"

\* C9: when create_and_save_animation finishes for a table with rows,
\* duration > 0, fps > 0 and hold >= 0, the last frame rendered
\* (frame_num = grand_total - 1) shows every bar at its row's full value.
C9_LastFrameFull ==
    (pc = "done" /\ N > 0 /\ duration > 0 /\ fps > 0 /\ hold >= 0)
        => /\ frame_num = GrandTotal - 1
           /\ \A k \in 1..N : IsFull(k)

\* C10: in every frame of a table of positive values at most one bar is
\* strictly between 0 and its full value; the bars of the rows before it are
\* at their full value and those of the rows after it are at 0.
C10_OneBarGrowing ==
    (Drawn /\ \A k \in 1..N : df[k].MWh > 0) =>
        /\ Cardinality({k \in 1..N : IsPartial(k)}) <= 1
        /\ \A k \in 1..N :
              IsPartial(k) =>
                  /\ \A j \in 1..(k - 1) : IsFull(j)
                  /\ \A j \in (k + 1)..N : IsEmpty(j)

C10_Witness ==
    /\ Drawn
    /\ N = 3
    /\ IsFull(1) /\ IsPartial(2) /\ IsEmpty(3)

====
